---- MODULE Spec2Model ----
(***************************************************************************)
(* Backend selection (balancer/selection/select.rs) and the per-backend    *)
(* latency moving average (rpc/types.rs) of blutgang.                      *)
(*                                                                         *)
(* Slices and vectors are functions over 0..n-1, so every index of the     *)
(* model is the index the Rust code uses.  An f64 is modelled by the exact *)
(* rational it denotes, a record [num, den] in lowest terms; `as u64` and  *)
(* `as usize` truncate it.  Option<usize> is a sequence: <<>> is None and  *)
(* <<i>> is Some(i).  A url is the number of the backend that owns it.     *)
(***************************************************************************)
EXTENDS Integers, Sequences, FiniteSets, TLC

VARIABLES rpcs, clock, op, last, fed, streak, calls

vars == <<rpcs, clock, op, last, fed, streak, calls>>

(***************************************************************************)
(* Bounds of the model.                                                    *)
(***************************************************************************)
\* The most backends a pool holds.
MaxRpcs == 3
\* The last reading of the clock (microseconds).
MaxTime == 2
\* The most latency samples recorded while backends are being selected.
MaxSamples == 1
\* The most latency samples recorded when only the moving average runs.
MaxFed == 3
\* The most backends of a pool whose clock is set back.
MaxSkewRpcs == 2

(***************************************************************************)
(* Numbers.                                                                *)
(***************************************************************************)
RECURSIVE GCD(_, _)
GCD(a, b) == IF b = 0 THEN a ELSE GCD(b, a % b)

\* The f64 quotient n / d of two non-negative numbers, d > 0.
Ratio(n, d) == LET g == GCD(n, d) IN [num |-> n \div g, den |-> d \div g]

FromInt(n) == [num |-> n, den |-> 1]

Add(x, y) == Ratio(x.num * y.den + y.num * x.den, x.den * y.den)

\* `x as u64` and `x as usize` of a non-negative f64: the integer part.
AsU64(x) == x.num \div x.den

AsUsize(x) == x.num \div x.den

Less(x, y) == x.num * y.den < y.num * x.den

\* iter().sum::<f64>()
RECURSIVE SumSeq(_)
SumSeq(s) == IF s = <<>> THEN FromInt(0) ELSE Add(Head(s), SumSeq(Tail(s)))

None == <<>>

Some(i) == <<i>>

Len0(f) == Cardinality(DOMAIN f)

(***************************************************************************)
(* The values the model draws the backends' settings and the samples from. *)
(***************************************************************************)
Groups == {0, 1}

\* <<max_consecutive, min_time_delta>>
Limits == {<<0, 0>>, <<2, 0>>, <<2, 1>>}

\* ma_length: 0.0 (as Status::default() leaves it), 1.0, 1.5 and 2.0
MaLengths == {FromInt(0), FromInt(1), Ratio(3, 2), FromInt(2)}

\* latencies: 0.5, 1.0 and 2.0
Samples == {Ratio(1, 2), FromInt(1), FromInt(2)}

(***************************************************************************)
(* rpc/types.rs                                                            *)
(***************************************************************************)
DefaultGroup == 0

StatusDefault ==
    [latency |-> FromInt(0), latency_data |-> <<>>, ma_length |-> FromInt(0)]

RpcDefault ==
    [url |-> 0, group |-> DefaultGroup, status |-> StatusDefault,
     max_consecutive |-> 0, consecutive |-> 0, last_used |-> 0,
     min_time_delta |-> 0]

RpcNew(url, group, max_consecutive, min_time_delta, ma_length) ==
    [url |-> url, group |-> group,
     status |-> [StatusDefault EXCEPT !.ma_length = ma_length],
     max_consecutive |-> max_consecutive, consecutive |-> 0, last_used |-> 0,
     min_time_delta |-> min_time_delta]

\* Vec::remove(0) panics on an empty vector.
update_latency_panics(self) ==
    /\ Len(self.status.latency_data) >= AsUsize(self.status.ma_length)
    /\ self.status.latency_data = <<>>

\* A slip of update_latency: the oldest sample goes only once the history is
\* longer than ma_length.
update_latency_late_removal(self, latest) ==
    LET data == self.status.latency_data
        removed == IF Len(data) > AsUsize(self.status.ma_length)
                   THEN Tail(data) ELSE data
        pushed == Append(removed, latest)
        sum == SumSeq(pushed)
    IN  [self EXCEPT !.status.latency_data = pushed,
                     !.status.latency = Ratio(sum.num, sum.den * Len(pushed))]

\* A slip of update_latency: the fairness counter cleared with the sample.
update_latency_clearing_consecutive(self, latest) ==
    LET data == self.status.latency_data
        removed == IF Len(data) >= AsUsize(self.status.ma_length)
                   THEN Tail(data) ELSE data
        pushed == Append(removed, latest)
        sum == SumSeq(pushed)
    IN  [self EXCEPT !.status.latency_data = pushed,
                     !.status.latency = Ratio(sum.num, sum.den * Len(pushed)),
                     !.consecutive = 0]

update_latency(self, latest) ==
    LET data == self.status.latency_data
        removed == IF Len(data) >= AsUsize(self.status.ma_length)
                   THEN Tail(data) ELSE data
        pushed == Append(removed, latest)
        sum == SumSeq(pushed)
    IN  [self EXCEPT !.status.latency_data = pushed,
                     !.status.latency = Ratio(sum.num, sum.den * Len(pushed))]

(***************************************************************************)
(* balancer/selection/select.rs                                            *)
(***************************************************************************)
\* The RpcIndexed of every backend of the route group, in list order.  The
\* &mut Rpc is a copy here; pick writes the copies back.
filtered_list(list, route_group) ==
    LET S == {i \in DOMAIN list : list[i].group = route_group}
        nth(k) == CHOOSE i \in S : Cardinality({j \in S : j < i}) = k
    IN  [k \in 0..(Cardinality(S) - 1) |-> [rpc |-> list[nth(k)], idx |-> nth(k)]]

\* What pick returns when one backend has the route group.
only_element(list) == [rpc |-> list[0], idx |-> Some(0)]

\* A slip of no_element: an index given with the default backend.
no_element_indexed == [rpc |-> RpcDefault, idx |-> Some(0)]

\* What pick returns when no backend has the route group.
no_element == [rpc |-> RpcDefault, idx |-> None]

\* A slip of picked_element: the position in the filtered list given for the
\* position in the list.
picked_element_filtered(list, picked_idx) ==
    [rpc |-> list[picked_idx].rpc, idx |-> Some(picked_idx)]

\* What pick returns for the entry algo chose.
picked_element(list, picked_idx) ==
    [rpc |-> list[picked_idx].rpc, idx |-> Some(list[picked_idx].idx)]

\* A slip of sort_key: the slowest first.
sort_key_descending(rpc) == 0 - AsU64(rpc.status.latency)

\* The key argsort sorts by.
sort_key(rpc) == AsU64(rpc.status.latency)

\* sort_unstable_by_key promises no order among equal keys: every ordering of
\* the indices by the key is a result the sort may give.
argsort(data) ==
    LET n == Len0(data)
    IN  {indices \in [0..(n - 1) -> 0..(n - 1)] :
            /\ \A a, b \in 0..(n - 1) : a # b => indices[a] # indices[b]
            /\ \A a, b \in 0..(n - 1) :
                 a < b => sort_key(data[indices[a]].rpc) <= sort_key(data[indices[b]].rpc)}

\* A slip of rev: the ranking walked from the best to the worst.
rev_forgotten(indices) == indices

\* indices.iter().rev()
rev(indices) == [k \in DOMAIN indices |-> indices[Len0(indices) - 1 - k]]

\* A slip of fastest: the last of the ranking for the first.
fastest_last(indices) == indices[Len0(indices) - 1]

\* The fastest rpc, the default choice.
fastest(indices) == indices[0]

\* time - last_used, a subtraction of two u128.  When last_used > time it
\* overflows: a build with overflow checks panics there, and one without
\* wraps to 2^128 - (last_used - time).  A u128 difference is the pair
\* [wraps, rest] that stands for wraps * 2^128 + rest.
sub_overflows(time, last_used) == last_used > time

wrapping_sub(time, last_used) ==
    [wraps |-> IF last_used > time THEN 1 ELSE 0, rest |-> time - last_used]

\* difference > min_time_delta; every min_time_delta and every rest of the
\* model is far below 2^128 in size.
Greater(difference, min_time_delta) ==
    difference.wraps = 1 \/ difference.rest > min_time_delta

\* A slip of meets_requirements: min_time_delta left out.
meets_requirements_any_time(rpc, time) == rpc.max_consecutive > rpc.consecutive

\* A slip of meets_requirements: max_consecutive left out.
meets_requirements_any_budget(rpc, time) ==
    Greater(wrapping_sub(time, rpc.last_used), rpc.min_time_delta)

\* A slip of meets_requirements: a backend passes once min_time_delta has
\* elapsed, not only after it.
meets_requirements_at_delta(rpc, time) ==
    /\ rpc.max_consecutive > rpc.consecutive
    /\ \/ time - rpc.last_used = rpc.min_time_delta
       \/ Greater(wrapping_sub(time, rpc.last_used), rpc.min_time_delta)

\* The requirements an rpc meets to be chosen in the loop.
meets_requirements(rpc, time) ==
    /\ rpc.max_consecutive > rpc.consecutive
    /\ Greater(wrapping_sub(time, rpc.last_used), rpc.min_time_delta)

\* The loop's condition panics: && evaluates the subtraction only when the
\* budget is left, and the subtraction overflows in a build that checks.
requirements_panic(rpc, time, overflow_checks) ==
    /\ overflow_checks
    /\ rpc.max_consecutive > rpc.consecutive
    /\ sub_overflows(time, rpc.last_used)

\* A slip of remove_consecutive: the counter left as it is.
remove_consecutive_forgotten(rpc) == rpc

\* A slip of remove_consecutive: last_used cleared along with the counter.
remove_consecutive_and_last_used(rpc) ==
    [rpc EXCEPT !.consecutive = 0, !.last_used = 0]

remove_consecutive(rpc) == [rpc EXCEPT !.consecutive = 0]

\* The loop of algo, from position k of the order it visits the entries in.
\* A panic leaves the entries visited so far reset and ends the call.
RECURSIVE algo_loop(_, _, _, _, _, _, _)
algo_loop(list, order, time, k, choice, choice_consecutive, overflow_checks) ==
    IF k >= Len0(order)
    THEN [list |-> list, choice |-> choice,
          choice_consecutive |-> choice_consecutive, panicked |-> FALSE]
    ELSE LET i == order[k]
         IN  IF requirements_panic(list[i].rpc, time, overflow_checks)
             THEN [list |-> list, choice |-> choice,
                   choice_consecutive |-> choice_consecutive, panicked |-> TRUE]
             ELSE LET met == meets_requirements(list[i].rpc, time)
                  IN  algo_loop([list EXCEPT ![i].rpc = remove_consecutive(list[i].rpc)],
                                order, time, k + 1,
                                IF met THEN i ELSE choice,
                                IF met THEN list[i].rpc.consecutive
                                       ELSE choice_consecutive,
                                overflow_checks)

\* A slip of initial_choice_consecutive: the default choice's own counter.
initial_choice_consecutive_of_fastest(list, indices) ==
    list[indices[0]].rpc.consecutive

\* let mut choice_consecutive = 0;
initial_choice_consecutive(list, indices) == 0

\* selection-weighed-round-robin, the default feature.
algo(list, indices, time, overflow_checks) ==
    LET r == algo_loop(list, rev(indices), time, 0, fastest(indices),
                       initial_choice_consecutive(list, indices), overflow_checks)
    IN  IF r.panicked
        THEN [list |-> r.list, picked_idx |-> r.choice, panicked |-> TRUE]
        ELSE [list |-> [r.list EXCEPT
                          ![r.choice].rpc.consecutive = r.choice_consecutive + 1,
                          ![r.choice].rpc.last_used = time],
              picked_idx |-> r.choice, panicked |-> FALSE]

\* A slip of algo_old: the fastest passed over only once it is beyond its
\* budget.
algo_old_late(list, indices) ==
    LET first == indices[0]
        second == indices[1]
    IN  IF list[first].rpc.max_consecutive < list[first].rpc.consecutive
        THEN [list |-> [[list EXCEPT ![second].rpc.consecutive = 1]
                           EXCEPT ![first].rpc.consecutive = 0],
              picked_idx |-> second, panicked |-> FALSE]
        ELSE [list |-> [list EXCEPT ![first].rpc.consecutive = @ + 1],
              picked_idx |-> first, panicked |-> FALSE]

\* old-weighted-round-robin.
algo_old(list, indices) ==
    LET first == indices[0]
        second == indices[1]
    IN  IF list[first].rpc.max_consecutive <= list[first].rpc.consecutive
        THEN [list |-> [[list EXCEPT ![second].rpc.consecutive = 1]
                           EXCEPT ![first].rpc.consecutive = 0],
              picked_idx |-> second, panicked |-> FALSE]
        ELSE [list |-> [list EXCEPT ![first].rpc.consecutive = @ + 1],
              picked_idx |-> first, panicked |-> FALSE]

\* The features a build selects algo by.
WeighedRoundRobin == "selection-weighed-round-robin"

OldRoundRobin == "old-weighted-round-robin"

\* The algo of the build.
algo_of(feature, list, indices, time, overflow_checks) ==
    IF feature = OldRoundRobin
    THEN algo_old(list, indices)
    ELSE algo(list, indices, time, overflow_checks)

\* The outcomes of pick(list, route_group) in a build of the feature, when the
\* clock reads time: the list as the call leaves it, the pair it returns, the
\* ranking it used, and whether it panicked instead of returning.  Whether
\* the build checks overflows is not the program's choice: both are outcomes.
pick(list, route_group, time, feature) ==
    LET fl == filtered_list(list, route_group)
    IN  IF Len0(fl) = 1
        THEN {[list |-> list, ret |-> only_element(list), indices |-> <<>>,
               panicked |-> FALSE]}
        ELSE IF Len0(fl) = 0
        THEN {[list |-> list, ret |-> no_element, indices |-> <<>>,
               panicked |-> FALSE]}
        ELSE {LET r == algo_of(feature, fl, indices, time, overflow_checks)
              IN  [list |-> [i \in DOMAIN list |->
                               IF list[i].group = route_group
                               THEN r.list[CHOOSE k \in DOMAIN fl : fl[k].idx = i].rpc
                               ELSE list[i]],
                   ret |-> IF r.panicked THEN no_element
                           ELSE picked_element(r.list, r.picked_idx),
                   indices |-> indices,
                   panicked |-> r.panicked]
              : indices \in argsort(fl), overflow_checks \in BOOLEAN}

(***************************************************************************)
(* The state machine: a pool of backends, the wall clock, and the calls    *)
(* made on the pool.  op records the last call (its arguments, the pool    *)
(* before it, what it returned, and the pick before it), last the latest   *)
(* pick, fed the samples each backend was given, and streak, for each      *)
(* route group, the backend its latest pick chose and how many times       *)
(* running it was chosen while another backend could have been.  calls     *)
(* holds the locals of the calls of pick that are under way, where a call  *)
(* is taken apart into steps (SpecPair); elsewhere a call is one step.     *)
(***************************************************************************)
NoStreak == [idx |-> None, n |-> 0]

\* The callers of pick when calls are taken apart into steps, and what a call
\* holds between its steps: the list as it was when the call began, the route
\* group, the time read, the ranking, the place in the loop and the choice.
Callers == {1, 2}

Idle ==
    [pc |-> "idle", pre |-> <<>>, route_group |-> 0, time |-> 0, indices |-> <<>>,
     k |-> 0, choice |-> 0, choice_consecutive |-> 0]

\* calls.of[c] is the call of caller c; calls.overlapped says that some call
\* began while another was under way, and calls.begun how many calls began.
NoCalls == [of |-> [c \in Callers |-> Idle], overlapped |-> FALSE, begun |-> 0]

\* A backend of the route group other than x had budget left and its time
\* gate open when pick was called on list at time.
other_could_serve(list, route_group, time, x) ==
    \E y \in DOMAIN list :
        /\ Some(y) # x
        /\ list[y].group = route_group
        /\ list[y].consecutive < list[y].max_consecutive
        /\ list[y].last_used <= time
        /\ time - list[y].last_used > list[y].min_time_delta

\* The streak of a route group after a pick on list at time chose idx: one
\* longer when the same backend was chosen again and another could have
\* served; begun anew at 1 when another backend was chosen and another could
\* have served; at 0 when no other could.
streak_after(before, list, route_group, time, idx) ==
    IF idx = None \/ Len0(filtered_list(list, route_group)) < 2
    THEN before
    ELSE IF ~other_could_serve(list, route_group, time, idx)
    THEN [idx |-> idx, n |-> 0]
    ELSE IF before.idx = idx
    THEN [idx |-> idx, n |-> before.n + 1]
    ELSE [idx |-> idx, n |-> 1]

NoPick == [route_group |-> 0, time |-> 0, idx |-> None, eligible |-> 0]

NoOp ==
    [kind |-> "new", route_group |-> 0, time |-> 0, pre |-> <<>>,
     rpc |-> RpcDefault, idx |-> None, indices |-> <<>>,
     target |-> 0, latest |-> FromInt(0), panicked |-> FALSE, prev |-> NoPick]

\* The number of samples given to the backends 0..k-1.
RECURSIVE Fed(_, _)
Fed(f, k) == IF k = 0 THEN 0 ELSE Len(f[k - 1]) + Fed(f, k - 1)

\* A pool as it is assembled: every backend is Rpc::new(..) with its route group.
Pool(group, limits, ma_length) ==
    [i \in DOMAIN group |->
       RpcNew(i + 1, group[i], limits[i][1], limits[i][2], ma_length[i])]

Init ==
    /\ \E n \in 0..MaxRpcs :
         \E group \in [0..(n - 1) -> Groups], l \in Limits :
            /\ rpcs = Pool(group, [i \in 0..(n - 1) |-> l],
                           [i \in 0..(n - 1) |-> FromInt(2)])
            /\ fed = [i \in 0..(n - 1) |-> <<>>]
    /\ clock = 0
    /\ op = NoOp
    /\ last = NoPick
    /\ streak = [g \in Groups |-> NoStreak]
    /\ calls = NoCalls

\* A call of pick in a build of the feature.
Call(route_group, feature) ==
    /\ \E out \in pick(rpcs, route_group, clock, feature) :
         /\ rpcs' = out.list
         /\ op' = [NoOp EXCEPT !.kind = "pick", !.route_group = route_group,
                               !.time = clock, !.pre = rpcs, !.rpc = out.ret.rpc,
                               !.idx = out.ret.idx, !.indices = out.indices,
                               !.panicked = out.panicked, !.prev = last]
         /\ last' = [route_group |-> route_group, time |-> clock, idx |-> out.ret.idx,
                     eligible |-> Len0(filtered_list(rpcs, route_group))]
         /\ streak' = [streak EXCEPT ![route_group] =
                         streak_after(@, rpcs, route_group, clock, out.ret.idx)]
    /\ UNCHANGED <<clock, fed, calls>>

Pick(route_group) == Call(route_group, WeighedRoundRobin)

UpdateLatency(i, latest) ==
    /\ i \in DOMAIN rpcs
    /\ IF update_latency_panics(rpcs[i])
       THEN /\ op' = [NoOp EXCEPT !.kind = "update_latency", !.pre = rpcs,
                                  !.target = i, !.latest = latest, !.panicked = TRUE]
            /\ UNCHANGED <<rpcs, fed>>
       ELSE /\ rpcs' = [rpcs EXCEPT ![i] = update_latency(rpcs[i], latest)]
            /\ fed' = [fed EXCEPT ![i] = Append(fed[i], latest)]
            /\ op' = [NoOp EXCEPT !.kind = "update_latency", !.pre = rpcs,
                                  !.target = i, !.latest = latest]
    /\ UNCHANGED <<clock, last, streak, calls>>

Tick ==
    /\ clock < MaxTime
    /\ clock' = clock + 1
    /\ op' = [NoOp EXCEPT !.kind = "tick", !.pre = rpcs]
    /\ UNCHANGED <<rpcs, last, fed, streak, calls>>

Next ==
    \/ \E route_group \in Groups : Pick(route_group)
    \/ \E i \in 0..(MaxRpcs - 1), latest \in Samples :
         Fed(fed, Len0(fed)) < MaxSamples /\ UpdateLatency(i, latest)
    \/ Tick

Spec == Init /\ [][Next]_vars

(***************************************************************************)
(* The moving average alone: two backends of every ma_length, and only     *)
(* update_latency called on them.                                          *)
(***************************************************************************)
InitLatency ==
    /\ \E n \in {2} :
         \E ma_length \in [0..(n - 1) -> MaLengths] :
            /\ rpcs = Pool([i \in 0..(n - 1) |-> DefaultGroup],
                           [i \in 0..(n - 1) |-> <<2, 0>>], ma_length)
            /\ fed = [i \in 0..(n - 1) |-> <<>>]
    /\ clock = 0
    /\ op = NoOp
    /\ last = NoPick
    /\ streak = [g \in Groups |-> NoStreak]
    /\ calls = NoCalls

NextLatency ==
    \E i \in {0, 1}, latest \in Samples :
       Fed(fed, Len0(fed)) < MaxFed /\ UpdateLatency(i, latest)

SpecLatency == InitLatency /\ [][NextLatency]_vars

(***************************************************************************)
(* The pool under a wall clock that is set back: SystemTime::now() is not  *)
(* monotonic, so a later call of pick can read an earlier time than the    *)
(* last_used an earlier call stored.                                       *)
(***************************************************************************)
SetBack ==
    /\ clock > 0
    /\ clock' = clock - 1
    /\ op' = [NoOp EXCEPT !.kind = "set_back", !.pre = rpcs]
    /\ UNCHANGED <<rpcs, last, fed, streak, calls>>

NextSkew ==
    \/ \E route_group \in Groups : Pick(route_group)
    \/ Tick
    \/ SetBack

InitSkew ==
    /\ \E n \in 0..MaxSkewRpcs :
         \E group \in [0..(n - 1) -> Groups], l \in Limits :
            /\ rpcs = Pool(group, [i \in 0..(n - 1) |-> l],
                           [i \in 0..(n - 1) |-> FromInt(2)])
            /\ fed = [i \in 0..(n - 1) |-> <<>>]
    /\ clock = 0
    /\ op = NoOp
    /\ last = NoPick
    /\ streak = [g \in Groups |-> NoStreak]
    /\ calls = NoCalls

SpecSkew == InitSkew /\ [][NextSkew]_vars

(***************************************************************************)
(* The pool in a build of the feature old-weighted-round-robin.  Its algo  *)
(* reads no clock.                                                         *)
(***************************************************************************)
PickOld(route_group) == Call(route_group, OldRoundRobin)

NextOld ==
    \/ \E route_group \in Groups : PickOld(route_group)
    \/ \E i \in 0..(MaxRpcs - 1), latest \in Samples :
         Fed(fed, Len0(fed)) < MaxSamples /\ UpdateLatency(i, latest)

SpecOld == Init /\ [][NextOld]_vars

(***************************************************************************)
(* Pools of one route group whose backends each have a budget of their     *)
(* own, under the calls of Spec.                                           *)
(***************************************************************************)
\* <<max_consecutive, min_time_delta>>
BudgetLimits == {<<1, 0>>, <<2, 0>>}

InitBudget ==
    /\ \E n \in 2..MaxRpcs :
         \E limits \in [0..(n - 1) -> BudgetLimits] :
            /\ rpcs = Pool([i \in 0..(n - 1) |-> DefaultGroup], limits,
                           [i \in 0..(n - 1) |-> FromInt(2)])
            /\ fed = [i \in 0..(n - 1) |-> <<>>]
    /\ clock = 0
    /\ op = NoOp
    /\ last = NoPick
    /\ streak = [g \in Groups |-> NoStreak]
    /\ calls = NoCalls

SpecBudget == InitBudget /\ [][Next]_vars

(***************************************************************************)
(* An unending sequence of calls of pick on one route group, each made a   *)
(* microsecond after the one before, on backends of min_time_delta = 0 and *)
(* latencies that stay as they are: every time gate is open at every call. *)
(* pick reads the clock only to compare time - last_used with              *)
(* min_time_delta and to store last_used = time, so time is counted here   *)
(* from an epoch that moves with the clock: after a call the epoch moves   *)
(* on by the microsecond that passes, the clock reads 1 again, and a       *)
(* last_used that falls before the epoch reads 0.                          *)
(***************************************************************************)
\* The most backends of the pool.
MaxFairRpcs == 3

\* max_consecutive, 1 or more
FairBudgets == {1, 2}

\* last_used counted from an epoch that many microseconds later.
since(elapsed, rpc) ==
    [rpc EXCEPT !.last_used = IF @ > elapsed THEN @ - elapsed ELSE 0]

\* The backends hold one sample each, the whole numbers 1..n in some order.
InitFair ==
    /\ \E n \in 3..MaxFairRpcs :
         \E budget \in [0..(n - 1) -> FairBudgets],
            sample \in {f \in [0..(n - 1) -> 1..n] :
                          \A a, b \in 0..(n - 1) : a # b => f[a] # f[b]} :
            /\ rpcs = [i \in 0..(n - 1) |->
                         update_latency(RpcNew(i + 1, DefaultGroup, budget[i], 0,
                                               FromInt(2)),
                                        FromInt(sample[i]))]
            /\ fed = [i \in 0..(n - 1) |-> <<FromInt(sample[i])>>]
    /\ clock = 1
    /\ op = NoOp
    /\ last = NoPick
    /\ streak = [g \in Groups |-> NoStreak]
    /\ calls = NoCalls

PickLater(route_group) ==
    /\ \E out \in pick(rpcs, route_group, clock, WeighedRoundRobin) :
         /\ rpcs' = [i \in DOMAIN out.list |-> since(1, out.list[i])]
         /\ op' = [NoOp EXCEPT !.kind = "pick", !.route_group = route_group,
                               !.time = clock, !.pre = rpcs, !.rpc = out.ret.rpc,
                               !.idx = out.ret.idx, !.indices = out.indices,
                               !.panicked = out.panicked, !.prev = last]
         /\ last' = [route_group |-> route_group, time |-> clock, idx |-> out.ret.idx,
                     eligible |-> Len0(filtered_list(rpcs, route_group))]
         /\ streak' = [streak EXCEPT ![route_group] =
                         streak_after(@, rpcs, route_group, clock, out.ret.idx)]
    /\ clock' = clock + 1 - 1
    /\ UNCHANGED <<fed, calls>>

NextFair == PickLater(DefaultGroup)

\* The calls never end.
SpecFair == InitFair /\ [][NextFair]_vars /\ WF_vars(NextFair)

(***************************************************************************)
(* pick without exclusive access to the pool: two callers, each call taken *)
(* apart into the steps that a lock held per backend would leave atomic.   *)
(* Begin filters and ranks the list, reads the clock and sets the default  *)
(* choice; Visit is one turn of the loop, on one backend; Finish writes    *)
(* the chosen backend's consecutive and last_used and returns.             *)
(***************************************************************************)
\* The most backends of the pool.
MaxPairRpcs == 2
\* The most calls of pick the two callers make.
MaxCalls == 3

InitPair ==
    /\ \E n \in 2..MaxPairRpcs :
         \E limits \in [0..(n - 1) -> BudgetLimits] :
            /\ rpcs = Pool([i \in 0..(n - 1) |-> DefaultGroup], limits,
                           [i \in 0..(n - 1) |-> FromInt(2)])
            /\ fed = [i \in 0..(n - 1) |-> <<>>]
    /\ clock = 0
    /\ op = NoOp
    /\ last = NoPick
    /\ streak = [g \in Groups |-> NoStreak]
    /\ calls = NoCalls

\* What a call leaves behind when it ends.
Return(c, route_group, time, pre, ret, indices, panicked, overlapped, begun) ==
    /\ op' = [NoOp EXCEPT !.kind = "pick", !.route_group = route_group,
                          !.time = time, !.pre = pre, !.rpc = ret.rpc,
                          !.idx = ret.idx, !.indices = indices,
                          !.panicked = panicked, !.prev = last]
    /\ last' = [route_group |-> route_group, time |-> time, idx |-> ret.idx,
                eligible |-> Len0(filtered_list(pre, route_group))]
    /\ streak' = [streak EXCEPT ![route_group] =
                    streak_after(@, pre, route_group, time, ret.idx)]
    /\ calls' = [of |-> [calls.of EXCEPT ![c] = Idle], overlapped |-> overlapped,
                 begun |-> begun]

\* select.rs 25-41 and 72-84
Begin(c, route_group) ==
    /\ calls.of[c].pc = "idle"
    /\ calls.begun < MaxCalls
    /\ LET fl == filtered_list(rpcs, route_group)
           overlapped == calls.overlapped \/ \E d \in Callers : calls.of[d].pc # "idle"
       IN  IF Len0(fl) = 1
           THEN /\ Return(c, route_group, clock, rpcs, only_element(rpcs), <<>>,
                          FALSE, overlapped, calls.begun + 1)
                /\ UNCHANGED rpcs
           ELSE IF Len0(fl) = 0
           THEN /\ Return(c, route_group, clock, rpcs, no_element, <<>>,
                          FALSE, overlapped, calls.begun + 1)
                /\ UNCHANGED rpcs
           ELSE \E indices \in argsort(fl) :
                   /\ calls' = [of |-> [calls.of EXCEPT ![c] =
                                   [pc |-> "loop", pre |-> rpcs,
                                    route_group |-> route_group, time |-> clock,
                                    indices |-> indices, k |-> 0,
                                    choice |-> fastest(indices),
                                    choice_consecutive |->
                                        initial_choice_consecutive(fl, indices)]],
                                overlapped |-> overlapped,
                                begun |-> calls.begun + 1]
                   /\ op' = [NoOp EXCEPT !.kind = "begin"]
                   /\ UNCHANGED <<rpcs, last, streak>>
    /\ UNCHANGED <<clock, fed>>

\* select.rs 85-95, one turn
Visit(c) ==
    LET call == calls.of[c]
    IN  /\ call.pc = "loop"
        /\ call.k < Len0(call.indices)
        /\ LET fl == filtered_list(rpcs, call.route_group)
               i == rev(call.indices)[call.k]
           IN  \E overflow_checks \in BOOLEAN :
                 IF requirements_panic(fl[i].rpc, call.time, overflow_checks)
                 THEN /\ Return(c, call.route_group, call.time, call.pre,
                                no_element, call.indices, TRUE, calls.overlapped,
                                calls.begun)
                      /\ UNCHANGED rpcs
                 ELSE LET met == meets_requirements(fl[i].rpc, call.time)
                      IN  /\ rpcs' = [rpcs EXCEPT ![fl[i].idx] =
                                        remove_consecutive(fl[i].rpc)]
                          /\ calls' = [calls EXCEPT
                                ![ "of" ][c].k = call.k + 1,
                                ![ "of" ][c].choice = IF met THEN i ELSE call.choice,
                                ![ "of" ][c].choice_consecutive =
                                    IF met THEN fl[i].rpc.consecutive
                                           ELSE call.choice_consecutive]
                          /\ op' = [NoOp EXCEPT !.kind = "visit"]
                          /\ UNCHANGED <<last, streak>>
        /\ UNCHANGED <<clock, fed>>

\* select.rs 98-100 and 44-45
Finish(c) ==
    LET call == calls.of[c]
    IN  /\ call.pc = "loop"
        /\ call.k = Len0(call.indices)
        /\ LET fl == filtered_list(rpcs, call.route_group)
               written == [fl EXCEPT
                             ![call.choice].rpc.consecutive = call.choice_consecutive + 1,
                             ![call.choice].rpc.last_used = call.time]
           IN  /\ rpcs' = [rpcs EXCEPT ![fl[call.choice].idx] = written[call.choice].rpc]
               /\ Return(c, call.route_group, call.time, call.pre,
                         picked_element(written, call.choice), call.indices,
                         FALSE, calls.overlapped, calls.begun)
        /\ UNCHANGED <<clock, fed>>

NextPair ==
    \/ \E c \in Callers : Begin(c, DefaultGroup)
    \/ \E c \in Callers : Visit(c)
    \/ \E c \in Callers : Finish(c)
    \/ Tick

SpecPair == InitPair /\ [][NextPair]_vars

(***************************************************************************)
(* What the claims speak of, read off op: the pool before the last call    *)
(* (op.pre), the pool after it (rpcs) and what the call returned.          *)
(***************************************************************************)
\* The backends of the pool the call was made on that have its route group.
Eligible == {i \in DOMAIN op.pre : op.pre[i].group = op.route_group}

Picked == op.kind = "pick"

\* The last call was a pick with two or more eligible backends.
PickedMany == Picked /\ Cardinality(Eligible) >= 2

\* Backend i had budget left and its time gate open when the call was made.
Qualifies(i) ==
    /\ op.pre[i].consecutive < op.pre[i].max_consecutive
    /\ op.time - op.pre[i].last_used > op.pre[i].min_time_delta

GateClosed(i) == ~(op.time - op.pre[i].last_used > op.pre[i].min_time_delta)

Chosen == op.idx[1]

Latency(i) == op.pre[i].status.latency

Key(i) == Latency(i).num \div Latency(i).den

\* The original index of the k-th eligible backend.
Nth(k) == CHOOSE i \in Eligible : Cardinality({j \in Eligible : j < i}) = k

\* C1: when exactly one backend has the route group, pick returns a copy of it
\* with Some(its position in the list), and changes no backend.
C1_OnlyEligibleReturned ==
    (Picked /\ Cardinality(Eligible) = 1) =>
        \A i \in Eligible :
            /\ op.idx = Some(i)
            /\ op.rpc = op.pre[i]
            /\ rpcs = op.pre

\* C2 as stated: after a pick among two or more eligible backends every eligible
\* backend but the chosen one has consecutive = 0 and the chosen one has its
\* previous consecutive + 1, the fallback included.
C2_ConsecutiveIncremented ==
    PickedMany =>
        /\ op.idx # None
        /\ Chosen \in Eligible
        /\ \A i \in Eligible \ {Chosen} : rpcs[i].consecutive = 0
        /\ rpcs[Chosen].consecutive = op.pre[Chosen].consecutive + 1

\* C2 amended: every eligible backend but the chosen one has consecutive = 0;
\* the chosen one has its previous consecutive + 1 when it met both conditions,
\* and 1 when the fallback selected it.
C2_ConsecutiveAfterPick ==
    PickedMany =>
        /\ op.idx # None
        /\ Chosen \in Eligible
        /\ \A i \in Eligible \ {Chosen} : rpcs[i].consecutive = 0
        /\ rpcs[Chosen].consecutive =
             IF Qualifies(Chosen) THEN op.pre[Chosen].consecutive + 1 ELSE 1

\* The fallback selected a backend whose consecutive was not 0.
C2_Witness ==
    /\ PickedMany
    /\ ~Qualifies(Chosen)
    /\ op.pre[Chosen].consecutive >= 1

\* C3 as stated: when some eligible backend meets both conditions, the backend
\* pick returns meets them and no other that meets them has a lower latency.
C3_LowestLatencyQualifier ==
    (PickedMany /\ \E i \in Eligible : Qualifies(i)) =>
        /\ op.idx # None
        /\ Chosen \in Eligible
        /\ Qualifies(Chosen)
        /\ \A i \in Eligible : Qualifies(i) => ~Less(Latency(i), Latency(Chosen))

\* C3 amended: when some eligible backend meets both conditions, the backend
\* pick returns meets them and no other that meets them has a lower integer
\* part of its latency (the key of the ranking).
C3_LowestKeyQualifier ==
    (PickedMany /\ \E i \in Eligible : Qualifies(i)) =>
        /\ op.idx # None
        /\ Chosen \in Eligible
        /\ Qualifies(Chosen)
        /\ op.rpc.url = op.pre[Chosen].url
        /\ \A i \in Eligible : Qualifies(i) => Key(Chosen) <= Key(i)

\* Two backends met the conditions and the later one in the list, of the lower
\* key, was returned.
C3_Witness ==
    /\ PickedMany
    /\ Qualifies(Chosen)
    /\ \E i \in Eligible : Qualifies(i) /\ i < Chosen /\ Key(Chosen) < Key(i)

\* C4 as stated: when no eligible backend meets both conditions pick returns a
\* present index, that of the eligible backend of the lowest latency; and the
\* index is present whenever a backend is eligible.
C4_FallbackLowestLatency ==
    /\ (Picked /\ Eligible # {}) => op.idx # None
    /\ (PickedMany /\ \A i \in Eligible : ~Qualifies(i)) =>
          /\ Chosen \in Eligible
          /\ \A i \in Eligible : ~Less(Latency(i), Latency(Chosen))

\* C4 amended: when no eligible backend meets both conditions pick returns a
\* present index, that of the first entry of the ranking, and no eligible
\* backend has a lower integer part of its latency; and the index is present
\* whenever a backend is eligible.
C4_FallbackFirstOfRanking ==
    /\ (Picked /\ Eligible # {}) => op.idx # None
    /\ (PickedMany /\ \A i \in Eligible : ~Qualifies(i)) =>
          /\ Chosen = Nth(op.indices[0])
          /\ op.rpc.url = op.pre[Chosen].url
          /\ \A i \in Eligible : Key(Chosen) <= Key(i)

\* The fallback returned a backend that is not the first of the list, of a
\* lower key than another eligible one.
C4_Witness ==
    /\ PickedMany
    /\ \A i \in Eligible : ~Qualifies(i)
    /\ \E i \in Eligible : i < Chosen /\ Key(Chosen) < Key(i)

\* C5: when no backend has the route group (the empty list included) pick
\* returns None with the default backend and changes no backend.
C5_NoneWhenNoEligible ==
    (Picked /\ Eligible = {}) =>
        /\ op.idx = None
        /\ op.rpc = RpcDefault
        /\ rpcs = op.pre

\* pick was called on a pool that has backends, none of the route group.
C5_Witness == Picked /\ Eligible = {} /\ Len0(op.pre) >= 2

\* C6: a pick among two or more eligible backends does not choose a backend
\* whose last_used is within its min_time_delta of now when another eligible
\* backend meets both conditions; so the backend X the previous pick of the
\* route group chose is not chosen again when the clock advanced by no more
\* than X's min_time_delta.
C6_RecentlyUsedSkipped ==
    PickedMany =>
        /\ \A x \in Eligible :
             (GateClosed(x) /\ \E y \in Eligible \ {x} : Qualifies(y))
                 => op.idx # Some(x)
        /\ \A x \in Eligible :
             ( /\ op.prev.idx = Some(x)
               /\ op.prev.route_group = op.route_group
               /\ op.prev.eligible >= 2
               /\ op.time - op.prev.time <= op.pre[x].min_time_delta
               /\ \E y \in Eligible \ {x} : Qualifies(y) )
                 => op.idx # Some(x)

\* The previous pick chose X, the clock advanced by no more than X's
\* min_time_delta (which is not 0), and this pick chose another backend
\* although X had budget left.
C6_Witness ==
    /\ PickedMany
    /\ \E x \in Eligible :
         /\ op.prev.idx = Some(x)
         /\ op.prev.route_group = op.route_group
         /\ op.prev.eligible >= 2
         /\ op.time > op.prev.time
         /\ op.time - op.prev.time <= op.pre[x].min_time_delta
         /\ op.pre[x].consecutive < op.pre[x].max_consecutive
         /\ op.idx # Some(x)
         /\ Qualifies(Chosen)

\* C7: a pick among two or more eligible backends returns Some(i), where i is
\* the position in the whole list of the backend chosen, list[i] has the
\* route group, and the backend returned is list[i] as the call leaves it.
C7_IndexIntoOriginalList ==
    PickedMany =>
        /\ op.idx # None
        /\ Chosen \in DOMAIN rpcs
        /\ rpcs[Chosen].group = op.route_group
        /\ op.rpc = rpcs[Chosen]
        /\ rpcs[Chosen].last_used = op.time
        /\ rpcs[Chosen].consecutive >= 1

\* The backend chosen is not where it is in the filtered list: a backend of
\* another route group comes before it.
C7_Witness ==
    /\ PickedMany
    /\ \E j \in DOMAIN op.pre : j < Chosen /\ j \notin Eligible

\* The ranking is a permutation of 0..n-1, n the number of eligible backends.
IsRanking ==
    /\ DOMAIN op.indices = 0..(Cardinality(Eligible) - 1)
    /\ \A k \in DOMAIN op.indices : op.indices[k] \in 0..(Cardinality(Eligible) - 1)
    /\ \A a, b \in DOMAIN op.indices : a # b => op.indices[a] # op.indices[b]

LatencyAscending ==
    \A a, b \in DOMAIN op.indices :
        a < b => Less(Latency(Nth(op.indices[a])), Latency(Nth(op.indices[b])))

\* C8 as stated: when the eligible backends' latencies are pairwise distinct
\* the ranking is a permutation of 0..n-1 in which latency strictly ascends.
C8_DistinctLatenciesAscend ==
    (PickedMany /\ \A i, j \in Eligible : i # j => Latency(i) # Latency(j)) =>
        IsRanking /\ LatencyAscending

\* C8 amended: when the integer parts of the eligible backends' latencies are
\* pairwise distinct the ranking is a permutation of 0..n-1 in which latency
\* strictly ascends.
C8_DistinctKeysAscend ==
    (PickedMany /\ \A i, j \in Eligible : i # j => Key(i) # Key(j)) =>
        IsRanking /\ LatencyAscending

\* Backends of pairwise distinct keys were ranked, and not in list order.
C8_Witness ==
    /\ PickedMany
    /\ \A i, j \in Eligible : i # j => Key(i) # Key(j)
    /\ op.indices[0] # 0

\* C9: the ranking is stable: of two eligible backends of equal keys the one
\* that comes first in the eligible list comes first in the ranking.
C9_StableRanking ==
    PickedMany =>
        \A a, b \in DOMAIN op.indices :
            (a < b /\ Key(Nth(op.indices[a])) = Key(Nth(op.indices[b])))
                => op.indices[a] < op.indices[b]

\* The last n samples of s.
LastN(s, n) == SubSeq(s, Len(s) - n + 1, Len(s))

Min(a, b) == IF a < b THEN a ELSE b

\* C10: for a backend of window w >= 1, after k calls of update_latency the
\* history is the last min(k, w) samples (w as a count: its integer part), in
\* the order they came, and latency is their arithmetic mean.
C10_MovingAverage ==
    \A i \in DOMAIN rpcs :
        LET w == rpcs[i].status.ma_length
            k == Len(fed[i])
            history == rpcs[i].status.latency_data
            latency == rpcs[i].status.latency
            sum == SumSeq(history)
        IN  w.num >= w.den =>
                /\ history = LastN(fed[i], Min(k, w.num \div w.den))
                /\ Len(history) * w.den <= w.num
                /\ k >= 1 =>
                     latency.num * sum.den * Len(history) = sum.num * latency.den

\* A backend was given more samples than its window holds, so the oldest ones
\* were evicted, and its latency is no whole number.
C10_Witness ==
    \E i \in DOMAIN rpcs :
        /\ op.kind = "update_latency" /\ op.target = i
        /\ AsUsize(rpcs[i].status.ma_length) = 2
        /\ Len(fed[i]) > 2
        /\ rpcs[i].status.latency.den # 1

\* C11: update_latency never panics and never divides by zero, whatever the
\* window, 0 with an empty history included: the call completes, the sample
\* is in the history and latency is the mean of a history that is not empty.
C11_UpdateLatencyCompletes ==
    op.kind = "update_latency" =>
        /\ ~op.panicked
        /\ rpcs[op.target].status.latency_data # <<>>
        /\ rpcs[op.target].status.latency.den > 0

\* C12: pick is total: it completes without a panic for every list, and a
\* backend whose last_used is later than the time the call read is not taken
\* to have its time gate open: it is not chosen while another eligible
\* backend meets both conditions.
C12_PickTotal ==
    Picked =>
        /\ ~op.panicked
        /\ \A x \in Eligible :
             ( /\ Cardinality(Eligible) >= 2
               /\ op.pre[x].last_used > op.time
               /\ \E y \in Eligible \ {x} :
                    op.pre[y].last_used <= op.time /\ Qualifies(y) )
                 => op.idx # Some(x)

\* C13: in every state reached by calls of pick and update_latency from
\* backends of consecutive = 0, every backend has
\* 0 <= consecutive <= max_consecutive + 1, and consecutive is above
\* max_consecutive only when max_consecutive = 0.
C13_ConsecutiveBounded ==
    \A i \in DOMAIN rpcs :
        /\ rpcs[i].consecutive >= 0
        /\ rpcs[i].consecutive <= rpcs[i].max_consecutive + 1
        /\ rpcs[i].consecutive > rpcs[i].max_consecutive
             => rpcs[i].max_consecutive = 0

\* The fallback chose, a second time running, a backend whose budget is 0: its
\* consecutive is above max_consecutive, by 1.
C13_Witness ==
    /\ PickedMany
    /\ op.pre[Chosen].consecutive = 1
    /\ rpcs[Chosen].max_consecutive = 0
    /\ rpcs[Chosen].consecutive = rpcs[Chosen].max_consecutive + 1

\* C14 as stated: under a clock that never goes back, a pick among two or more
\* eligible backends sets the chosen backend's last_used to a value strictly
\* greater than its previous one, the fallback at an unchanged timestamp
\* included.
C14_LastUsedStrictlyIncreases ==
    PickedMany => rpcs[Chosen].last_used > op.pre[Chosen].last_used

\* C14 amended: under a clock that never goes back, a pick among two or more
\* eligible backends sets the chosen backend's last_used to the time it read,
\* which is no less than its previous last_used, and strictly greater when
\* some eligible backend met both conditions (the choice was no fallback).
C14_LastUsedNeverDecreases ==
    PickedMany =>
        /\ rpcs[Chosen].last_used = op.time
        /\ rpcs[Chosen].last_used >= op.pre[Chosen].last_used
        /\ (\E i \in Eligible : Qualifies(i))
             => rpcs[Chosen].last_used > op.pre[Chosen].last_used

\* The fallback chose a backend that was last used at the very time this pick
\* read, so its last_used stayed as it was.
C14_Witness ==
    /\ PickedMany
    /\ \A i \in Eligible : ~Qualifies(i)
    /\ op.time > 0
    /\ op.pre[Chosen].last_used = op.time
    /\ rpcs[Chosen].last_used = op.pre[Chosen].last_used

\* C15: a call of update_latency on one backend changes only that backend's
\* latency and latency history: every other backend is as it was, and so are
\* the target's consecutive, last_used, max_consecutive, min_time_delta,
\* route group, url and window.
C15_UpdateLatencyFrame ==
    op.kind = "update_latency" =>
        /\ DOMAIN rpcs = DOMAIN op.pre
        /\ \A i \in DOMAIN rpcs : i # op.target => rpcs[i] = op.pre[i]
        /\ rpcs[op.target] =
             [op.pre[op.target] EXCEPT !.status.latency = rpcs[op.target].status.latency,
                                       !.status.latency_data =
                                           rpcs[op.target].status.latency_data]

\* update_latency was called on a backend that had been chosen, in a pool
\* that holds another backend that had been chosen, and changed its latency.
C15_Witness ==
    /\ op.kind = "update_latency"
    /\ ~op.panicked
    /\ op.pre[op.target].consecutive > 0
    /\ op.pre[op.target].last_used > 0
    /\ rpcs[op.target].status.latency # op.pre[op.target].status.latency
    /\ \E i \in DOMAIN rpcs : i # op.target /\ rpcs[i].last_used > 0

\* C20: a call of pick leaves every backend of another route group as it
\* was; of a backend of the route group it changes consecutive and last_used
\* at most, and last_used of the chosen backend only.
C20_PickFrame ==
    Picked =>
        /\ DOMAIN rpcs = DOMAIN op.pre
        /\ \A i \in DOMAIN rpcs \ Eligible : rpcs[i] = op.pre[i]
        /\ \A i \in Eligible :
             rpcs[i] = [op.pre[i] EXCEPT !.consecutive = rpcs[i].consecutive,
                                         !.last_used = rpcs[i].last_used]
        /\ \A i \in Eligible :
             rpcs[i].last_used # op.pre[i].last_used => op.idx = Some(i)

\* pick chose a backend of a pool that holds a backend of another route group
\* and passed over one that had been chosen before: the latter's counter was
\* reset and its last_used, which is not 0, kept.
C20_Witness ==
    /\ PickedMany
    /\ DOMAIN op.pre \ Eligible # {}
    /\ rpcs[Chosen].last_used # op.pre[Chosen].last_used
    /\ \E i \in Eligible \ {Chosen} :
         /\ op.pre[i].consecutive > 0
         /\ op.pre[i].last_used > 0
         /\ rpcs[i].consecutive = 0
         /\ rpcs[i].last_used = op.pre[i].last_used

\* What the legacy algo does when f is the fastest backend and s the second
\* fastest: it passes over f once f has used up its budget, for s; no other
\* backend is chosen or changed, and no last_used is changed.
LegacyOutcome(f, s) ==
    /\ IF op.pre[f].consecutive >= op.pre[f].max_consecutive
       THEN /\ op.idx = Some(s)
            /\ rpcs[f].consecutive = 0
            /\ rpcs[s].consecutive = 1
       ELSE /\ op.idx = Some(f)
            /\ rpcs[f].consecutive = op.pre[f].consecutive + 1
            /\ rpcs[s] = op.pre[s]
    /\ op.rpc = rpcs[Chosen]
    /\ \A i \in DOMAIN rpcs \ {f, s} : rpcs[i] = op.pre[i]
    /\ \A i \in DOMAIN rpcs : rpcs[i].last_used = op.pre[i].last_used

\* C18 as stated: in the legacy mode, with two or more eligible backends, pick
\* passes over the backend of the lowest latency for that of the second lowest
\* once the former has consecutive >= max_consecutive (the former's
\* consecutive becomes 0, the latter's 1), and otherwise chooses the backend of
\* the lowest latency and adds 1 to its consecutive; no backend ranked third
\* or later is chosen or changed, and no last_used is changed.
C18_LegacyByLatency ==
    PickedMany =>
        \E f, s \in Eligible :
            /\ f # s
            /\ \A i \in Eligible : ~Less(Latency(i), Latency(f))
            /\ \A i \in Eligible \ {f} : ~Less(Latency(i), Latency(s))
            /\ LegacyOutcome(f, s)

\* C18 amended: the same of the first and the second entry of the ranking,
\* which have the lowest and the second lowest integer part of latency.
C18_LegacyByRanking ==
    PickedMany =>
        LET f == Nth(op.indices[0])
            s == Nth(op.indices[1])
        IN  /\ f # s
            /\ \A i \in Eligible : Key(f) <= Key(i)
            /\ \A i \in Eligible \ {f} : Key(s) <= Key(i)
            /\ LegacyOutcome(f, s)

\* Of three eligible backends the first of the ranking had used up a budget
\* that is not 0 and pick passed over it for the second; the third has a
\* higher key than both.
C18_Witness ==
    /\ PickedMany
    /\ Cardinality(Eligible) = 3
    /\ op.pre[Nth(op.indices[0])].max_consecutive >= 1
    /\ op.pre[Nth(op.indices[0])].consecutive >= op.pre[Nth(op.indices[0])].max_consecutive
    /\ op.idx = Some(Nth(op.indices[1]))
    /\ Key(Nth(op.indices[1])) < Key(Nth(op.indices[2]))

\* C16: over the picks on a route group of two or more eligible backends, no
\* backend is chosen more than max_consecutive times running while, at each of
\* those picks, another eligible backend has budget left and its time gate
\* open.
C16_NoMoreThanMaxConsecutive ==
    \A g \in Groups :
        streak[g].idx # None =>
            streak[g].n <= rpcs[streak[g].idx[1]].max_consecutive

\* A backend was chosen max_consecutive times running, each time while another
\* could have served, and this pick passed over it, though its time gate was
\* open, for another.
C16_Witness ==
    /\ PickedMany
    /\ op.prev.route_group = op.route_group
    /\ op.prev.idx # None
    /\ op.prev.idx # op.idx
    /\ op.pre[op.prev.idx[1]].consecutive = op.pre[op.prev.idx[1]].max_consecutive
    /\ op.time - op.pre[op.prev.idx[1]].last_used > op.pre[op.prev.idx[1]].min_time_delta
    /\ streak[op.route_group] = [idx |-> op.idx, n |-> 1]

\* C17: no eligible backend starves: with three or more eligible backends of
\* distinct latencies that stay as they are, every max_consecutive >= 1 and
\* every time gate open at every call, an unending sequence of picks on the
\* route group chooses every eligible backend again and again.
C17_NoStarvation ==
    \A i \in 0..(MaxFairRpcs - 1) :
        []<>(i \in DOMAIN rpcs => (op.kind = "pick" /\ op.idx = Some(i)))

\* The backends of route group g that hold consecutive > 0.
Hot(g) == {i \in DOMAIN rpcs : rpcs[i].group = g /\ rpcs[i].consecutive > 0}

\* C19: pick must have the pool to itself: while no call of pick has begun
\* with another under way, at most one backend of a route group holds
\* consecutive > 0, and a call that returns leaves the list and returns the
\* pair that pick, run in one piece on the list the call began with, can; two
\* calls taken apart into steps per backend and interleaved reach a state, two
\* backends of the group both holding consecutive > 0, that no calls run one
\* after the other reach.
C19_ExclusivePickIsSerial ==
    ~calls.overlapped =>
        /\ \A g \in Groups : Cardinality(Hot(g)) <= 1
        /\ Picked =>
             [list |-> rpcs, ret |-> [rpc |-> op.rpc, idx |-> op.idx],
              indices |-> op.indices, panicked |-> op.panicked]
                 \in pick(op.pre, op.route_group, op.time, WeighedRoundRobin)

\* Two calls on the route group were interleaved and both have returned, each
\* with its own backend: both backends hold consecutive > 0.
C19_Witness ==
    /\ calls.overlapped
    /\ \A c \in Callers : calls.of[c].pc = "idle"
    /\ PickedMany
    /\ ~op.panicked
    /\ op.prev.route_group = op.route_group
    /\ op.prev.idx # None
    /\ op.prev.idx # op.idx
    /\ Cardinality(Hot(op.route_group)) >= 2

====
